---- MODULE Spec2Model ----
(***************************************************************************)
(* The chat endpoint of the GP Arvi chatbot: a request handler that        *)
(* flattens the pages of websiteData.json into content records, keeps the  *)
(* records that contain the question, composes a context from them and     *)
(* asks a chat-completion API for the answer.                              *)
(*                                                                         *)
(* The repository holds five behaviourally different revisions of the      *)
(* handler; the variable rev says which one is deployed:                   *)
(*   "part_000"   src/unnamed/part_000          inline filter, no composer *)
(*   "part_001"   src/unnamed/part_001, part_002, src/api/chat.js:126-209  *)
(*                extractor with || defaults and no trimming               *)
(*   "chat_1"     src/api/chat.js:1-125, src/unnamed/part_003:1-126        *)
(*                extractor with ?? defaults and trimming                  *)
(*   "chat_3"     src/api/chat.js:211-348       normalising matcher with a *)
(*                debugging loop over an undeclared name                   *)
(*   "part_003"   src/unnamed/part_003:128-287  normalising matcher and a  *)
(*                catch of its own around the API call                     *)
(*                                                                         *)
(* JavaScript values are tagged records [t |-> type, v |-> value]; strings *)
(* are sequences of one-character strings.  A computation that may throw   *)
(* yields [thrown |-> FALSE, val |-> v] or [thrown |-> TRUE, message |-> m]*)
(***************************************************************************)
EXTENDS Integers, Sequences, FiniteSets, TLC

VARIABLES
  rev,    \* the revision of the handler that is deployed
  data,   \* the parsed websiteData.json, read once when the module loads
  reqs,   \* the handler activations suspended at their await, by request
  done    \* the request whose handler returned in this turn of the event
          \* loop, with what it did (idle between turns)

vars == <<rev, data, reqs, done>>

-----------------------------------------------------------------------------
(* JavaScript values *)

Undef == [t |-> "undefined"]

Null == [t |-> "null"]

Num(n) == [t |-> "number", v |-> n]

Str(s) == [t |-> "string", v |-> s]

Arr(a) == [t |-> "array", v |-> a]

Obj(o) == [t |-> "object", v |-> o]

EmptyStr == Str(<<>>)

Ok(v) == [thrown |-> FALSE, val |-> v]

Throw(m) == [thrown |-> TRUE, message |-> m]

\* ToBoolean: what `!x`, `x && ...`, `x || ...`, `x ? :` and filter(Boolean) test.
Truthy(x) ==
  CASE x.t \in {"undefined", "null"} -> FALSE
    [] x.t = "number" -> x.v # 0
    [] x.t = "string" -> Len(x.v) > 0
    [] OTHER -> TRUE

\* What `x ?? y` and `x?.p` test.
Nullish(x) == x.t \in {"undefined", "null"}

\* x.k : a TypeError on undefined and null, undefined for a key the value lacks.
Prop(x, k) ==
  IF Nullish(x) THEN Throw("Cannot read properties of null or undefined")
  ELSE IF x.t = "object" /\ k \in DOMAIN x.v THEN Ok(x.v[k])
  ELSE Ok(Undef)

\* x?.k
OptProp(x, k) == IF Nullish(x) THEN Ok(Undef) ELSE Prop(x, k)

\* x[0] : a TypeError on undefined and null, the first element of an array,
\* the first character of a string, undefined otherwise.
Index0(x) ==
  IF Nullish(x) THEN Throw("Cannot read properties of null or undefined (reading '0')")
  ELSE IF x.t = "array" /\ Len(x.v) > 0 THEN Ok(x.v[1])
  ELSE IF x.t = "string" /\ Len(x.v) > 0 THEN Ok(Str(<<x.v[1]>>))
  ELSE Ok(Undef)

\* x?.[0]
OptFirst(x) == IF Nullish(x) THEN Ok(Undef) ELSE Index0(x)

\* x ?? ""
NullishEmpty(x) == IF Nullish(x) THEN EmptyStr ELSE x

\* x || ""
OrEmpty(x) == IF Truthy(x) THEN x ELSE EmptyStr

-----------------------------------------------------------------------------
(* Strings *)

UpperChars ==
  << "A", "B", "C", "D", "E", "F", "G", "H", "I", "J", "K", "L", "M",
     "N", "O", "P", "Q", "R", "S", "T", "U", "V", "W", "X", "Y", "Z" >>

LowerChars ==
  << "a", "b", "c", "d", "e", "f", "g", "h", "i", "j", "k", "l", "m",
     "n", "o", "p", "q", "r", "s", "t", "u", "v", "w", "x", "y", "z" >>

DigitChars == << "0", "1", "2", "3", "4", "5", "6", "7", "8", "9" >>

Range(s) == { s[i] : i \in DOMAIN s }

\* The characters String.prototype.trim strips and the regular expression \s matches.
IsSpace(c) == c \in {" ", "\t", "\n"}

\* The characters the class [a-z0-9 ] of prepare matches.
IsPlain(c) == c \in Range(LowerChars) \cup Range(DigitChars) \cup {" "}

LowerChar(c) ==
  IF c \in Range(UpperChars)
  THEN LowerChars[CHOOSE i \in DOMAIN UpperChars : UpperChars[i] = c]
  ELSE c

toLowerCase(s) == [i \in DOMAIN s |-> LowerChar(s[i])]

RECURSIVE TrimStart(_)
TrimStart(s) ==
  IF s # <<>> /\ IsSpace(Head(s)) THEN TrimStart(Tail(s)) ELSE s

RECURSIVE TrimEnd(_)
TrimEnd(s) ==
  IF s # <<>> /\ IsSpace(s[Len(s)]) THEN TrimEnd(SubSeq(s, 1, Len(s) - 1)) ELSE s

trim(s) == TrimEnd(TrimStart(s))

\* s.includes(q): q occurs in s as a contiguous run (the empty q always does).
includes(s, q) ==
  \E i \in 0 .. (Len(s) - Len(q)) : SubSeq(s, i + 1, i + Len(q)) = q

NotPlain(c) == ~IsPlain(c)

\* Whether c is in the character class of the regular expression: the class
\* [^a-z0-9 ] ("notPlain") or the class \s ("space").
InClass(class, c) == IF class = "space" THEN IsSpace(c) ELSE NotPlain(c)

\* s.replace(re, " ") for a global regular expression <class>+ : every maximal
\* run of characters of the class becomes one space.
RECURSIVE ReplaceRuns(_, _, _)
ReplaceRuns(s, class, inRun) ==
  IF s = <<>> THEN <<>>
  ELSE IF InClass(class, Head(s))
       THEN (IF inRun THEN <<>> ELSE <<" ">>) \o ReplaceRuns(Tail(s), class, TRUE)
       ELSE <<Head(s)>> \o ReplaceRuns(Tail(s), class, FALSE)

\* parts.join(sep) over strings.
RECURSIVE join(_, _)
join(parts, sep) ==
  IF parts = <<>> THEN <<>>
  ELSE IF Len(parts) = 1 THEN parts[1]
  ELSE parts[1] \o sep \o join(Tail(parts), sep)

\* String(x), as a template literal `${x}` converts it.
RECURSIVE ToStr(_)
ToStr(x) ==
  CASE x.t = "string" -> x.v
    [] x.t = "undefined" -> <<"u", "n", "d", "e", "f", "i", "n", "e", "d">>
    [] x.t = "null" -> <<"n", "u", "l", "l">>
    [] x.t = "number" -> <<DigitChars[x.v + 1]>>
    [] x.t = "array" ->
         join([i \in DOMAIN x.v |->
                 IF Nullish(x.v[i]) THEN <<>> ELSE ToStr(x.v[i])], <<",">>)
    [] OTHER ->
         << "[", "o", "b", "j", "e", "c", "t", " ", "O", "b", "j", "e", "c", "t", "]" >>

-----------------------------------------------------------------------------
(* The revisions *)

Revisions == {"part_000", "part_001", "chat_1", "chat_3", "part_003"}

\* The revisions whose extractor defaults with || and keeps every string content.
OrRevs == {"part_001"}

\* The revisions whose matcher normalises with prepare.
PrepareRevs == {"chat_3", "part_003"}

\* The revisions that flatten the pages with extractContentRecords.
ExtractRevs == Revisions \ {"part_000"}

-----------------------------------------------------------------------------
(* extractContentRecords *)

\* page.title ?? ""  (page.title || "" in the || revisions); the same for url, heading.
DefaultField(rv, x) == IF rv \in OrRevs THEN OrEmpty(x) ELSE NullishEmpty(x)

\* The test a section's or a page's content has to pass to become a record.
ContentQualifies(rv, c) ==
  /\ c.t = "string"
  /\ rv \in OrRevs \/ trim(c.v) # <<>>

\* The content the record is given.
RecordContent(rv, c) == IF rv \in OrRevs THEN c ELSE Str(trim(c.v))

\* for (const section of page.sections) { ... records.push(...) }
RECURSIVE ExtractSections(_, _, _, _, _, _)
ExtractSections(rv, title, url, sections, i, acc) ==
  IF i > Len(sections) THEN Ok(acc)
  ELSE LET section == sections[i]
           content == Prop(section, "content")
       IN IF content.thrown THEN content
          ELSE IF ContentQualifies(rv, content.val)
               THEN ExtractSections(rv, title, url, sections, i + 1,
                      Append(acc, [title |-> title, url |-> url,
                                   heading |-> DefaultField(rv, Prop(section, "heading").val),
                                   content |-> RecordContent(rv, content.val)]))
               ELSE ExtractSections(rv, title, url, sections, i + 1, acc)

\* ExtractPage as it would be if an empty sections array fell through to the
\* page's own content.
ExtractPageSkippingEmptySections(rv, page) ==
  LET pt == Prop(page, "title")
  IN IF pt.thrown THEN pt
     ELSE LET title == DefaultField(rv, pt.val)
              url == DefaultField(rv, Prop(page, "url").val)
              sections == Prop(page, "sections").val
              content == Prop(page, "content").val
          IN IF sections.t = "array" /\ Len(sections.v) > 0
             THEN ExtractSections(rv, title, url, sections.v, 1, <<>>)
             ELSE IF ContentQualifies(rv, content)
                  THEN Ok(<< [title |-> title, url |-> url, heading |-> EmptyStr,
                             content |-> RecordContent(rv, content)] >>)
                  ELSE Ok(<<>>)

\* The body of the loop over the pages, for one page: the records it pushes.
ExtractPage(rv, page) ==
  LET pt == Prop(page, "title")
  IN IF pt.thrown THEN pt
     ELSE LET title == DefaultField(rv, pt.val)
              url == DefaultField(rv, Prop(page, "url").val)
              sections == Prop(page, "sections").val
              content == Prop(page, "content").val
          IN IF sections.t = "array"
             THEN ExtractSections(rv, title, url, sections.v, 1, <<>>)
             ELSE IF ContentQualifies(rv, content)
                  THEN Ok(<< [title |-> title, url |-> url, heading |-> EmptyStr,
                             content |-> RecordContent(rv, content)] >>)
                  ELSE Ok(<<>>)

RECURSIVE ExtractPages(_, _, _, _)
ExtractPages(rv, pages, i, acc) ==
  IF i > Len(pages) THEN Ok(acc)
  ELSE LET r == ExtractPage(rv, pages[i])
       IN IF r.thrown THEN r
          ELSE ExtractPages(rv, pages, i + 1, acc \o r.val)

\* extractContentRecords(websiteData): the records, or the TypeError of a
\* websiteData that is not iterable, of a null page or of a null section.
extractContentRecords(rv, websiteData) ==
  IF websiteData.t # "array" THEN Throw("websiteData is not iterable")
  ELSE ExtractPages(rv, websiteData.v, 1, <<>>)

-----------------------------------------------------------------------------
(* searchRelevantChunks *)

\* prepare(str): lowercase, runs outside [a-z0-9 ] to a space, runs of
\* whitespace to a space, trimmed.  Applied to the string (str || "").
prepare(s) ==
  trim(ReplaceRuns(ReplaceRuns(toLowerCase(s), "notPlain", FALSE), "space", FALSE))

\* prepare(x).includes(q) for a JavaScript value x: (x || "") is x itself when
\* x is truthy, and .toLowerCase is not a function unless x is a string.
PreparedIncludes(x, q) ==
  IF Truthy(x) /\ x.t # "string" THEN Throw("(str || \"\").toLowerCase is not a function")
  ELSE Ok(includes(prepare(OrEmpty(x).v), q))

\* (x && x.toLowerCase().includes(q))
LowerIncludes(x, q) ==
  IF ~Truthy(x) THEN Ok(FALSE)
  ELSE IF x.t # "string" THEN Throw("toLowerCase is not a function")
  ELSE Ok(includes(toLowerCase(x.v), q))

FieldIncludes(rv, x, q) ==
  IF rv \in PrepareRevs THEN PreparedIncludes(x, q) ELSE LowerIncludes(x, q)

\* The filter's callback: content || heading || title, left to right, a field
\* read only when the ones before it did not match.
ItemMatches(rv, item, q) ==
  LET c == FieldIncludes(rv, item.content, q)
  IN IF c.thrown \/ c.val THEN c
     ELSE LET h == FieldIncludes(rv, item.heading, q)
          IN IF h.thrown \/ h.val THEN h
             ELSE FieldIncludes(rv, item.title, q)

\* records.filter(callback)
RECURSIVE FilterRecords(_, _, _, _, _)
FilterRecords(rv, records, q, i, acc) ==
  IF i > Len(records) THEN Ok(acc)
  ELSE LET m == ItemMatches(rv, records[i], q)
       IN IF m.thrown THEN m
          ELSE FilterRecords(rv, records, q, i + 1,
                             IF m.val THEN Append(acc, records[i]) ELSE acc)

\* The question as the matcher compares it.
NormalizedQuestion(rv, question) ==
  IF rv \in PrepareRevs THEN prepare(question.v) ELSE toLowerCase(question.v)

\* searchRelevantChunks(records, question).  In chat_3 the function reads
\* relevantChunks, a name that is declared only inside handler.
searchRelevantChunks(rv, records, question) ==
  IF ~Truthy(question) THEN Ok(<<>>)
  ELSE IF question.t # "string" THEN Throw("question.toLowerCase is not a function")
  ELSE IF rv = "chat_3" THEN Throw("relevantChunks is not defined")
  ELSE FilterRecords(rv, records, NormalizedQuestion(rv, question), 1, <<>>)

-----------------------------------------------------------------------------
(* The handler *)

\* A literal of the source whose characters the program never inspects (an
\* error text, a prompt, a fallback answer) is a string of one symbol.
Text(s) == Str(<<s>>)

\* const maxChunks = 8
maxChunks == 8

ModelName == Text("nvidia/nemotron-nano-9b-v2")

\* "No relevant info found."
Sentinel == <<"No relevant info found.">>

TitlePrefix == << "T", "i", "t", "l", "e", ":", " " >>

HeadingPrefix == << "H", "e", "a", "d", "i", "n", "g", ":", " " >>

ContextPrefix == << "C", "o", "n", "t", "e", "x", "t", ":", "\n" >>

QuestionPrefix == << "\n", "\n", "Q", "u", "e", "s", "t", "i", "o", "n", ":", " " >>

\* The text part_003 puts after the question in the user message.
UserSuffix(rv) ==
  IF rv = "part_003"
  THEN <<"\n\nCarefully analyze the context above. Explain your reasoning step by step, and then provide your final answer.">>
  ELSE <<>>

\* The system message of each revision (its opening words stand for the text).
SystemPrompt(rv) ==
  CASE rv = "part_000" -> Text("You are a chatbot that answers using the provided context only.")
    [] rv = "part_001" -> Text("You are a helpful chatbot for Government Polytechnic Arvi. ...")
    [] rv = "part_003" -> Text("You are Celestial, ... Your job is to carefully read and analyze all provided context, ...")
    [] OTHER -> Text("You are Celestial, the official AI assistant of Government Polytechnic Arvi, ...")

\* array.filter(Boolean) over strings: the empty ones go.
FilterNonEmpty(parts) == SelectSeq(parts, LAMBDA p : p # <<>>)

\* The callback of relevantChunks.slice(0, maxChunks).map(...): one record's block.
RenderBlock(c) ==
  join(FilterNonEmpty(<<
         IF Truthy(c.title) THEN TitlePrefix \o ToStr(c.title) ELSE <<>>,
         IF Truthy(c.heading) THEN HeadingPrefix \o ToStr(c.heading) ELSE <<>>,
         ToStr(c.content) >>), <<"\n">>)

\* array.slice(0, n)
SliceTo(a, n) == SubSeq(a, 1, IF Len(a) < n THEN Len(a) ELSE n)

\* relevantChunks.slice(0, maxChunks).map(block).join("\n\n")
JoinBlocks(chunks) ==
  join([i \in DOMAIN chunks |-> RenderBlock(chunks[i])], <<"\n", "\n">>)

\* part_000: relevantChunks.map(c => c.content || '').join("\n")
JoinContents(chunks) ==
  join([i \in DOMAIN chunks |-> ToStr(OrEmpty(Prop(chunks[i], "content").val))], <<"\n">>)

\* The context without the sentinel: s, empty or not.
OrSentinelMissing(s) == s

\* s || "No relevant info found."
OrSentinel(s) == IF s = <<>> THEN Sentinel ELSE s

\* const context = ... : the context of a revision from its relevantChunks.
ComposeContext(rv, relevantChunks) ==
  IF rv = "part_000" THEN OrSentinel(JoinContents(relevantChunks))
  ELSE OrSentinel(JoinBlocks(SliceTo(relevantChunks, maxChunks)))

\* The argument of openai.chat.completions.create.
ApiArgs(rv, context, question) ==
  LET messages ==
        << [role |-> "system", content |-> SystemPrompt(rv)],
           [role |-> "user",
            content |-> Str(ContextPrefix \o context \o QuestionPrefix
                            \o ToStr(question) \o UserSuffix(rv))] >>
  IN IF rv = "part_000"
     THEN [model |-> ModelName, messages |-> messages]
     ELSE [model |-> ModelName, messages |-> messages,
           temperature |-> <<2, 10>>, max_tokens |-> 1000]

\* A request before the handler is called on it.  contentRecords and
\* relevantChunks hold what the two calls yielded once they are made; settled
\* and outcome say how the API call ended.
IdleReq ==
  [pc |-> "idle", method |-> "", body |-> Undef, question |-> Undef,
   contentRecords |-> Undef, relevantChunks |-> Undef,
   context |-> <<>>, events |-> <<>>, settled |-> "no", outcome |-> Undef]

\* The handler without its console.error calls.
LogNothing(req, label) == req

\* console.error(label, err)
Log(req, label) ==
  [req EXCEPT !.events = Append(@, [type |-> "log", label |-> label])]

\* res.status(status).json(payload), and the handler returns.
Respond(req, status, payload) ==
  [req EXCEPT !.pc = "responded",
              !.events = Append(@, [type |-> "respond", status |-> status,
                                    payload |-> payload])]

\* The handler's promise rejects: the error leaves the handler, nothing is sent.
Reject(req, message) ==
  [req EXCEPT !.pc = "rejected",
              !.events = Append(@, [type |-> "reject", message |-> message])]

\* await openai.chat.completions.create(...): the call is made, the handler waits.
CallApi(rv, req, context) ==
  [req EXCEPT !.pc = "awaiting", !.context = context,
              !.events = Append(@, [type |-> "api",
                                    args |-> ApiArgs(rv, context, req.question)])]

\* err?.message ?? fallback
MessageOr(err, fallback) ==
  LET m == OptProp(err, "message").val
  IN IF Nullish(m) THEN fallback ELSE m

\* What a thrown TypeError or ReferenceError is, as a value.
ErrorValue(message) == Obj([message |-> Text(message)])

\* The catch around the whole handler (none in part_000).
OuterCatch(rv, req, err) ==
  Respond(Log(req, IF rv = "part_001" THEN "API Error:" ELSE "Unhandled API error:"),
          500,
          [error |-> IF rv = "part_001" THEN "Failed to get response" ELSE "Server error",
           details |-> MessageOr(err, Text("Unknown error"))])

\* !question || typeof question !== "string" || !question.trim()
\* (part_000 tests !question alone)
QuestionRejected(rv, question) ==
  \/ ~Truthy(question)
  \/ rv # "part_000" /\ (question.t # "string" \/ trim(question.v) = <<>>)

-----------------------------------------------------------------------------
(* part_000: the handler up to its await *)

\* (d.content && d.content.toLowerCase().includes(question.toLowerCase()))
BasicFieldIncludes(x, question) ==
  IF ~Truthy(x) THEN Ok(FALSE)
  ELSE IF x.t # "string" \/ question.t # "string"
       THEN Throw("toLowerCase is not a function")
  ELSE Ok(includes(toLowerCase(x.v), toLowerCase(question.v)))

\* The callback of data.filter: content || section.
BasicItemMatches(d, question) ==
  LET pc == Prop(d, "content")
  IN IF pc.thrown THEN pc
     ELSE LET c == BasicFieldIncludes(pc.val, question)
          IN IF c.thrown \/ c.val THEN c
             ELSE BasicFieldIncludes(Prop(d, "section").val, question)

RECURSIVE BasicFilter(_, _, _, _)
BasicFilter(items, question, i, acc) ==
  IF i > Len(items) THEN Ok(acc)
  ELSE LET m == BasicItemMatches(items[i], question)
       IN IF m.thrown THEN m
          ELSE BasicFilter(items, question, i + 1,
                           IF m.val THEN Append(acc, items[i]) ELSE acc)

\* data.filter(d => ...)
BasicRelevantChunks(websiteData, question) ==
  IF websiteData.t # "array" THEN Throw("data.filter is not a function")
  ELSE BasicFilter(websiteData.v, question, 1, <<>>)

\* part_000's handler from its call to its await or its return.  Nothing
\* before the await is inside a try: an error there rejects the handler.
BasicStart(websiteData, req) ==
  IF req.method # "POST" THEN Respond(req, 405, [error |-> "Method not allowed"])
  ELSE LET q == Prop(req.body, "question")
       IN IF q.thrown THEN Reject(req, q.message)
          ELSE LET req1 == [req EXCEPT !.question = q.val]
               IN IF QuestionRejected("part_000", q.val)
                  THEN Respond(req1, 400, [error |-> "Missing question"])
                  ELSE LET chunks == BasicRelevantChunks(websiteData, q.val)
                           req2 == [req1 EXCEPT !.relevantChunks = chunks]
                       IN IF chunks.thrown THEN Reject(req2, chunks.message)
                          ELSE CallApi("part_000", req2,
                                       ComposeContext("part_000", chunks.val))

-----------------------------------------------------------------------------
(* The other revisions: the handler up to its await *)

\* req.body ?? {}
BodyOrEmpty(body) == IF Nullish(body) THEN Obj([question |-> Undef]) ELSE body

\* The catch around extractContentRecords (part_001 has none: the error goes
\* to the outer catch).
ExtractCatch(rv, req, err) ==
  IF rv \in OrRevs THEN OuterCatch(rv, req, err)
  ELSE Respond(Log(req, "Error extracting content from data:"), 500,
               [error |-> "Could not parse website data properly."])

\* console.log("Question (normalized):", q), the first statement of chat_3's
\* searchRelevantChunks after its test of the question.
SearchLog(rv, req) ==
  IF rv = "chat_3"
  THEN [req EXCEPT !.events = Append(@, [type |-> "info",
                                         label |-> "Question (normalized):"])]
  ELSE req

\* The handler of the other revisions from its call to its await or its return.
MainStart(rv, websiteData, req) ==
  IF req.method # "POST" THEN Respond(req, 405, [error |-> "Method not allowed"])
  ELSE LET question == Prop(BodyOrEmpty(req.body), "question").val
           req1 == [req EXCEPT !.question = question]
       IN IF QuestionRejected(rv, question)
          THEN Respond(req1, 400,
                       [error |-> IF rv \in OrRevs
                                  THEN "Missing or invalid 'question'"
                                  ELSE "Missing or invalid 'question' in request body."])
          ELSE LET records == extractContentRecords(rv, websiteData)
                   req2 == [req1 EXCEPT !.contentRecords = records]
               IN IF records.thrown
                  THEN ExtractCatch(rv, req2, ErrorValue(records.message))
                  ELSE LET chunks == searchRelevantChunks(rv, records.val, question)
                           req3 == SearchLog(rv, [req2 EXCEPT !.relevantChunks = chunks])
                       IN IF chunks.thrown
                          THEN OuterCatch(rv, req3, ErrorValue(chunks.message))
                          ELSE CallApi(rv, req3, ComposeContext(rv, chunks.val))

\* The handler without its test of req.method: every request is handled as a
\* POST is.
HandlerStartAnyMethod(rv, websiteData, req) ==
  LET asPost == [req EXCEPT !.method = "POST"]
      started == IF rv = "part_000" THEN BasicStart(websiteData, asPost)
                 ELSE MainStart(rv, websiteData, asPost)
  IN [started EXCEPT !.method = req.method]

\* handler(req, res) from its call to its await or its return.
HandlerStart(rv, websiteData, req) ==
  IF rv = "part_000" THEN BasicStart(websiteData, req)
  ELSE MainStart(rv, websiteData, req)

-----------------------------------------------------------------------------
(* The handler after its await *)

\* part_000: completion.choices[0].message.content
BasicAnswer(completion) ==
  LET choices == Prop(completion, "choices")
  IN IF choices.thrown THEN choices
     ELSE LET first == Index0(choices.val)
          IN IF first.thrown THEN first
             ELSE LET message == Prop(first.val, "message")
                  IN IF message.thrown THEN message
                     ELSE Prop(message.val, "content")

\* content?.trim()
OptTrim(x) ==
  IF Nullish(x) THEN Ok(Undef)
  ELSE IF x.t # "string" THEN Throw("completion.choices?.[0]?.message?.content?.trim is not a function")
  ELSE Ok(Str(trim(x.v)))

\* completion.choices?.[0]?.message?.content?.trim()
TrimmedContent(completion) ==
  LET choices == Prop(completion, "choices")
  IN IF choices.thrown THEN choices
     ELSE OptTrim(OptProp(OptProp(OptFirst(choices.val).val, "message").val,
                          "content").val)

\* ... ?? "No response from AI."   (... || "No response from AI model." in part_001)
AnswerOrFallback(rv, x) ==
  IF rv \in OrRevs
  THEN (IF Truthy(x) THEN x ELSE Text("No response from AI model."))
  ELSE (IF Nullish(x) THEN Text("No response from AI.") ELSE x)

\* The handler's continuation when the API call's promise is fulfilled.
HandlerResolved(rv, req, completion) ==
  IF rv = "part_000"
  THEN LET a == BasicAnswer(completion)
       IN IF a.thrown
          THEN Respond(Log(req, "err"), 500, [error |-> "Failed to get response"])
          ELSE Respond(req, 200, [answer |-> a.val])
  ELSE LET t == TrimmedContent(completion)
       IN IF t.thrown THEN OuterCatch(rv, req, ErrorValue(t.message))
          ELSE Respond(req, 200, [answer |-> AnswerOrFallback(rv, t.val)])

\* The handler's continuation when the API call's promise is rejected with err.
HandlerRejected(rv, req, err) ==
  CASE rv = "part_000" ->
         Respond(Log(req, "err"), 500, [error |-> "Failed to get response"])
    [] rv = "part_003" ->
         Respond(Log(req, "OpenAI API error:"), 503,
                 [error |-> "AI service unavailable",
                  details |-> MessageOr(err, Text("Failed to get response from AI model"))])
    [] OTHER -> OuterCatch(rv, req, err)

-----------------------------------------------------------------------------
(* The inputs: data files, requests, API outcomes *)

\* The number of requests that can be in flight together.
MaxReq == 2

\* The number of pages of ManyData, all of which match the question "hello".
MaxMatches == 10

\* A page or a flat entry of the data file; an absent key reads as undefined.
Page(title, url, content, sections, section) ==
  Obj([title |-> title, url |-> url, content |-> content,
       sections |-> sections, section |-> section])

Section(heading, content) == Obj([heading |-> heading, content |-> content])

\* The example of the specification: one page, one section.
ExampleData ==
  Arr(<< Page(Str(<<"A">>), Undef, Undef,
              Arr(<< Section(Str(<<"H", "1">>), Str(<<"h", "e", "l", "l", "o", " ", "w", "o", "r", "l", "d">>)) >>), Undef) >>)

\* Pages of every shape: untrimmed direct content, an empty sections array
\* beside a content, sections with blank, missing and non-string fields, a
\* blank page, a sections key that is no array.
MixedData ==
  Arr(<< Page(Str(<<"F", "e", "e", "s">>), Str(<<"/", "f", "e", "e", "s">>), Str(<<" ", " ", "H", "e", "l", "l", "o", ",", " ", "W", "o", "r", "l", "d", "!", "\n">>), Undef, Undef),
         Page(Str(<<"B">>), Undef, Str(<<"h", "e", "l", "l", "o">>), Arr(<<>>), Undef),
         Page(Str(<<"C">>), Null,
              Undef,
              Arr(<< Section(Str(<<"H", "e", "l", "l", "o">>), Str(<<" ", "\t", " ">>)),
                     Section(Undef, Str(<<"H", "i", " ", "t", "h", "e", "r", "e">>)),
                     Section(Str(<<"x">>), Num(5)),
                     Num(7) >>), Undef),
         Page(Undef, Undef, Str(<<"\n">>), Undef, Undef),
         Page(Str(<<"h", "e", "l", "l", "o">>), Undef, Str(<<"f", "e", "e", "s">>), Str(<<"n", "o", "n", "e">>), Undef) >>)

\* A null entry inside sections.
NullSectionData ==
  Arr(<< Page(Str(<<"A">>), Undef, Undef, Arr(<< Null, Section(Undef, Str(<<"h", "e", "l", "l", "o">>)) >>), Undef) >>)

\* A title that is a number on a page whose content matches "hello", and a
\* heading that is an object on a section whose content does not.
BadTitleData ==
  Arr(<< Page(Num(5), Undef, Str(<<"h", "e", "l", "l", "o">>), Undef, Undef),
         Page(Str(<<"T">>), Undef, Undef,
              Arr(<< Section(Obj([a |-> Num(1)]), Str(<<"b", "y", "e">>)) >>), Undef) >>)

\* "hello" and the i-th of 0-9a-z: no such content occurs inside another.
ManyContent(i) == Str(<<"h", "e", "l", "l", "o">> \o <<(DigitChars \o LowerChars)[i]>>)

\* MaxMatches pages with a content each, all containing "hello".
ManyData ==
  Arr([i \in 1 .. MaxMatches |-> Page(Undef, Undef, ManyContent(i), Undef, Undef)])

\* A data file that is no array.
NotIterableData == Obj([pages |-> Arr(<<>>)])

\* Entries in the shape part_000 reads: content and section.
FlatData ==
  Arr(<< Page(Undef, Undef, Str(<<"H", "e", "l", "l", "o", "!", " ", "w", "o", "r", "l", "d">>), Undef, Str(<<"I", "n", "t", "r", "o">>)),
         Page(Undef, Undef, Undef, Undef, Str(<<"h", "e", "l", "l", "o">>)),
         Page(Undef, Undef, Str(<<"b", "y", "e">>), Undef, Undef) >>)

DataFiles ==
  { ExampleData, MixedData, NullSectionData, BadTitleData, ManyData,
    NotIterableData, FlatData }

\* Request bodies: none, {}, and {question: ...} with a number, an empty, a
\* blank and three proper strings.
Bodies ==
  { Undef,
    Obj([question |-> Undef]),
    Obj([question |-> Num(5)]),
    Obj([question |-> EmptyStr]),
    Obj([question |-> Str(<<" ", "\n">>)]),
    Obj([question |-> Str(<<"h", "e", "l", "l", "o">>)]),
    Obj([question |-> Str(<<"H", "e", "l", "l", "o", "!">>)]),
    Obj([question |-> Str(<<"?", "?", "?">>)]) }

\* The requests: a POST with any body, a GET with none or with a question.
Requests ==
  { [method |-> "POST", body |-> b] : b \in Bodies }
    \cup { [method |-> "GET", body |-> b] : b \in {Undef, Obj([question |-> Str(<<"h", "e", "l", "l", "o">>)])} }

Choice(content) == Obj([message |-> Obj([content |-> content])])

\* What the API call's promise can be fulfilled with.
Completions ==
  { Undef,
    Obj([choices |-> Arr(<<>>)]),
    Obj([choices |-> Arr(<< Obj([message |-> Undef]) >>)]),
    Obj([choices |-> Arr(<< Choice(Null) >>)]),
    Obj([choices |-> Arr(<< Choice(Num(5)) >>)]),
    Obj([choices |-> Arr(<< Choice(Str(<<" ", "\t", " ">>)) >>)]),
    Obj([choices |-> Arr(<< Choice(Str(<<" ", "o", "k", " ", "\n">>)) >>)]) }

\* What the API call's promise can be rejected with: an Error, a value
\* without a message, nothing.
ApiErrors ==
  { Obj([message |-> Text("Connection error.")]), Obj([status |-> Num(5)]), Undef }

-----------------------------------------------------------------------------
(* The state machine *)

Init ==
  /\ rev \in Revisions
  /\ data \in DataFiles
  /\ reqs = [r \in 1 .. MaxReq |-> IdleReq]
  /\ done = IdleReq

\* The handler with its locals at module level: a request that arrives while
\* request 1 is suspended starts from what request 1 left in them.
ReceiveSharingLocals(r, request) ==
  /\ done.pc = "idle"
  /\ reqs[r].pc = "idle"
  /\ \A s \in 1 .. (r - 1) : reqs[s].pc # "idle"
  /\ LET before == IF r > 1 THEN reqs[1] ELSE IdleReq
         req == HandlerStart(rev, data,
                  [before EXCEPT !.pc = "running", !.method = request.method,
                                 !.body = request.body])
     IN IF req.pc = "awaiting"
        THEN reqs' = [reqs EXCEPT ![r] = req] /\ done' = done
        ELSE done' = req /\ reqs' = reqs
  /\ UNCHANGED <<rev, data>>

\* The runtime calls handler(req, res) for a new request, which is given the
\* first free number r.  The handler runs to its first await, or to its return
\* when it answers before it.
Receive(r, request) ==
  /\ done.pc = "idle"
  /\ reqs[r].pc = "idle"
  /\ \A s \in 1 .. (r - 1) : reqs[s].pc # "idle"
  /\ LET req == HandlerStart(rev, data,
                  [IdleReq EXCEPT !.pc = "running", !.method = request.method,
                                  !.body = request.body])
     IN IF req.pc = "awaiting"
        THEN reqs' = [reqs EXCEPT ![r] = req] /\ done' = done
        ELSE done' = req /\ reqs' = reqs
  /\ UNCHANGED <<rev, data>>

\* The API call of request r is fulfilled with completion.
ApiResolve(r, completion) ==
  /\ done.pc = "idle"
  /\ reqs[r].pc = "awaiting"
  /\ done' = HandlerResolved(rev, [reqs[r] EXCEPT !.settled = "fulfilled",
                                                  !.outcome = completion],
                             completion)
  /\ reqs' = [reqs EXCEPT ![r] = IdleReq]
  /\ UNCHANGED <<rev, data>>

\* The API call of request r is rejected with err.
ApiReject(r, err) ==
  /\ done.pc = "idle"
  /\ reqs[r].pc = "awaiting"
  /\ done' = HandlerRejected(rev, [reqs[r] EXCEPT !.settled = "rejected",
                                                  !.outcome = err],
                             err)
  /\ reqs' = [reqs EXCEPT ![r] = IdleReq]
  /\ UNCHANGED <<rev, data>>

\* The turn of the event loop in which a handler returned ends: its response
\* (or its rejection) is the runtime's, and the next callback can run.
EndTurn ==
  /\ done.pc # "idle"
  /\ done' = IdleReq
  /\ UNCHANGED <<rev, data, reqs>>

Next ==
  \/ \E r \in 1 .. MaxReq :
       \/ \E request \in Requests : Receive(r, request)
       \/ \E completion \in Completions : ApiResolve(r, completion)
       \/ \E err \in ApiErrors : ApiReject(r, err)
  \/ EndTurn

Spec == Init /\ [][Next]_vars

-----------------------------------------------------------------------------
(* What the properties below speak of *)

\* Request 0 is the one whose handler returned in this turn; 1 .. MaxReq are
\* the ones suspended at their await.
Req(r) == IF r = 0 THEN done ELSE reqs[r]

ReqIds == 0 .. MaxReq

ApiEvents(req) == SelectSeq(req.events, LAMBDA e : e.type = "api")

Responses(req) == SelectSeq(req.events, LAMBDA e : e.type = "respond")

\* The one response of a request that was answered.
Response(req) == Responses(req)[1]

\* The question field of a request body, undefined when there is no body or
\* no such field.
QuestionOf(body) ==
  IF body.t = "object" /\ "question" \in DOMAIN body.v THEN body.v.question ELSE Undef

\* A string with at least one character that is not whitespace.
HasNonSpace(x) == x.t = "string" /\ \E i \in DOMAIN x.v : ~IsSpace(x.v[i])

\* The request is a POST whose question is a proper string.
ValidRequest(req) == req.method = "POST" /\ HasNonSpace(QuestionOf(req.body))

\* The handler made the call (extraction, matching) and it returned.
Returned(result) == "thrown" \in DOMAIN result /\ ~result.thrown

\* The handler made the call and it threw.
Threw(result) == "thrown" \in DOMAIN result /\ result.thrown

-----------------------------------------------------------------------------
(* C1 *)

\* C1: a POST whose question is missing, not a string, empty or all
\* whitespace (a request without a body included) is answered with status
\* 400 and an error payload, and the completion API is not invoked for it.
C1_BadQuestionIs400 ==
  \A r \in ReqIds :
    LET req == Req(r)
    IN (req.pc # "idle" /\ req.method = "POST" /\ ~HasNonSpace(QuestionOf(req.body)))
         => /\ req.pc = "responded"
            /\ Len(Responses(req)) = 1
            /\ Response(req).status = 400
            /\ "error" \in DOMAIN Response(req).payload
            /\ ApiEvents(req) = <<>>

-----------------------------------------------------------------------------
(* C2 *)

AbsentOrString(x) == x.t \in {"undefined", "string"}

\* A data file in the shape the specification describes: an array of page
\* objects whose title, url and content, where present, are strings and
\* whose sections, where present, is an array of objects with string fields.
WellFormedData(d) ==
  /\ d.t = "array"
  /\ \A i \in DOMAIN d.v :
       LET page == d.v[i]
       IN /\ page.t = "object"
          /\ \A k \in DOMAIN page.v \ {"sections"} : AbsentOrString(page.v[k])
          /\ "sections" \in DOMAIN page.v =>
               \/ page.v.sections.t = "undefined"
               \/ /\ page.v.sections.t = "array"
                  /\ \A j \in DOMAIN page.v.sections.v :
                       LET section == page.v.sections.v[j]
                       IN /\ section.t = "object"
                          /\ \A k \in DOMAIN section.v : AbsentOrString(section.v[k])

\* The call has a system and a user message, the user message holds the
\* context and the question as sent, temperature is 0.2 and max_tokens 1000.
ApiCallAsSpecified(req, args) ==
  /\ Len(args.messages) = 2
  /\ args.messages[1].role = "system"
  /\ args.messages[2].role = "user"
  /\ includes(args.messages[2].content.v, req.context)
  /\ includes(args.messages[2].content.v, QuestionOf(req.body).v)
  /\ "temperature" \in DOMAIN args /\ args.temperature = <<2, 10>>
  /\ "max_tokens" \in DOMAIN args /\ args.max_tokens = 1000

\* C2: for a valid request over a well-formed data file the handler runs
\* extraction, matching and composition and then invokes the completion API
\* exactly once, as specified, before it sends any response.
C2_ValidRequestCallsApiOnce ==
  \A r \in ReqIds :
    LET req == Req(r)
    IN (req.pc # "idle" /\ ValidRequest(req) /\ WellFormedData(data))
         => /\ Returned(req.contentRecords)
            /\ Returned(req.relevantChunks)
            /\ Len(ApiEvents(req)) = 1
            /\ req.events[1].type = "api"
            /\ ApiCallAsSpecified(req, req.events[1].args)

-----------------------------------------------------------------------------
(* C3 *)

\* x.k read without a throw: undefined where x is no object or has no k.
FieldOf(x, k) == IF x.t = "object" /\ k \in DOMAIN x.v THEN x.v[k] ELSE Undef

\* The pages <<i, 0>> and the sections <<i, j>> of a data file whose content
\* is a string that is not empty after trimming.
SourcesWithContent(d) ==
  { <<i, 0>> : i \in { i \in DOMAIN d.v : HasNonSpace(FieldOf(d.v[i], "content")) } }
    \cup
  UNION { { <<i, j>> : j \in { j \in DOMAIN FieldOf(d.v[i], "sections").v :
                                 HasNonSpace(FieldOf(FieldOf(d.v[i], "sections").v[j],
                                                     "content")) } }
          : i \in { i \in DOMAIN d.v : FieldOf(d.v[i], "sections").t = "array" } }

\* A non-empty string without leading or trailing whitespace.
NonEmptyTrimmed(x) ==
  /\ x.t = "string"
  /\ x.v # <<>>
  /\ ~IsSpace(x.v[1])
  /\ ~IsSpace(x.v[Len(x.v)])

\* C3: every record extractContentRecords emits has a content that is a
\* non-empty string without leading or trailing whitespace, and no record is
\* emitted for a page or section whose content is missing, null, not a string
\* or empty after trimming.
C3_RecordsHaveTrimmedContent ==
  \A r \in ReqIds :
    LET req == Req(r)
    IN Returned(req.contentRecords)
         => /\ \A i \in DOMAIN req.contentRecords.val :
                 NonEmptyTrimmed(req.contentRecords.val[i].content)
            /\ Len(req.contentRecords.val) <= Cardinality(SourcesWithContent(data))

-----------------------------------------------------------------------------
(* C4 *)

\* The revisions whose extractor is the one of part_003, lines 141-168.
TrimRevs == ExtractRevs \ OrRevs

\* A title, url or heading as a record carries it: empty when absent.
AbsentToEmpty(x) == IF x.t \in {"undefined", "null"} THEN EmptyStr ELSE x

Least(S) == CHOOSE i \in S : \A j \in S : i <= j

Greatest(S) == CHOOSE i \in S : \A j \in S : j <= i

\* s from its first to its last character that is not whitespace.
Stripped(s) ==
  LET solid == { i \in DOMAIN s : ~IsSpace(s[i]) }
  IN IF solid = {} THEN <<>> ELSE SubSeq(s, Least(solid), Greatest(solid))

RecordOf(page, heading, content) ==
  [title |-> AbsentToEmpty(FieldOf(page, "title")),
   url |-> AbsentToEmpty(FieldOf(page, "url")),
   heading |-> heading,
   content |-> Str(Stripped(content.v))]

\* One record per section whose content is a string with a character that
\* is not whitespace, in section order.
SectionRecords(page) ==
  LET qualifying == SelectSeq(FieldOf(page, "sections").v,
                              LAMBDA sec : HasNonSpace(FieldOf(sec, "content")))
  IN [j \in DOMAIN qualifying |->
        RecordOf(page, AbsentToEmpty(FieldOf(qualifying[j], "heading")),
                 FieldOf(qualifying[j], "content"))]

OwnContentRecord(page) ==
  IF HasNonSpace(FieldOf(page, "content"))
  THEN << RecordOf(page, EmptyStr, FieldOf(page, "content")) >>
  ELSE <<>>

\* The records of a page as C4 states them: the sections' when sections is a
\* non-empty sequence, the page's own content otherwise.
PageRecordsAsClaimed(page) ==
  IF FieldOf(page, "sections").t = "array" /\ FieldOf(page, "sections").v # <<>>
  THEN SectionRecords(page)
  ELSE OwnContentRecord(page)

\* The records of a page as the extractor emits them: the sections' when
\* sections is an array, empty or not, the page's own content otherwise.
PageRecordsAsAmended(page) ==
  IF FieldOf(page, "sections").t = "array"
  THEN SectionRecords(page)
  ELSE OwnContentRecord(page)

RECURSIVE Concat(_)
Concat(seqs) == IF seqs = <<>> THEN <<>> ELSE Head(seqs) \o Concat(Tail(seqs))

\* The inputs on which extraction throws: a data file that is no array, a
\* null page, a null entry in a sections array.
ExtractionThrows(d) ==
  \/ d.t # "array"
  \/ \E i \in DOMAIN d.v :
       \/ Nullish(d.v[i])
       \/ /\ FieldOf(d.v[i], "sections").t = "array"
          /\ \E j \in DOMAIN FieldOf(d.v[i], "sections").v :
               Nullish(FieldOf(d.v[i], "sections").v[j])

-----------------------------------------------------------------------------
(* C5 *)

\* The revisions whose extractor and matcher are the ones of part_003, lines
\* 141-190 and 8-53 (chat.js, lines 8-50).
CitedMatcherRevs == {"chat_1", "part_003"}

\* A page collection: an array of page objects, their fields and the entries
\* of their sections of any type.
PageCollection(d) == d.t = "array" /\ \A i \in DOMAIN d.v : d.v[i].t = "object"

\* C5: extraction and matching never raise an error because a field is absent
\* or of the wrong type: over any page collection, with missing, null or
\* non-string title, url, heading, content and null or non-object entries in
\* sections, extractContentRecords followed by searchRelevantChunks returns.
C5_ExtractionAndMatchingNeverThrow ==
  \A r \in ReqIds :
    LET req == Req(r)
    IN (rev \in CitedMatcherRevs /\ PageCollection(data)
          /\ req.pc # "idle" /\ ValidRequest(req))
         => /\ Returned(req.contentRecords)
            /\ Returned(req.relevantChunks)

-----------------------------------------------------------------------------
(* C6 *)

\* A field as the matcher of a revision compares it: a field that is no
\* string has no text.
NormalizedField(rv, x) ==
  IF x.t = "string" THEN NormalizedQuestion(rv, x) ELSE <<>>

\* The normalized question is inside the normalized content, heading or title.
MatchesAsClaimed(rv, record, q) ==
  \E k \in {"content", "heading", "title"} :
    includes(NormalizedField(rv, record[k]), q)

\* C6: searchRelevantChunks returns exactly the records, in their order and
\* once each, whose normalized content, heading or title contains the
\* normalized question: no other record, and every such record.
C6_MatcherReturnsMatchingSubsequence ==
  \A r \in ReqIds :
    LET req == Req(r)
    IN (rev \in CitedMatcherRevs /\ Returned(req.contentRecords))
         => /\ Returned(req.relevantChunks)
            /\ req.relevantChunks.val =
                 SelectSeq(req.contentRecords.val,
                           LAMBDA record :
                             MatchesAsClaimed(rev, record,
                                              NormalizedQuestion(rev, req.question)))

-----------------------------------------------------------------------------
(* C7 *)

\* The request made its API call, now or before: it has a context.
ReachedApi(req) == req.pc # "idle" /\ ApiEvents(req) # <<>>

\* A field of a match: a content record's, or a raw entry's in part_000.
ChunkField(chunk, k) == IF "t" \in DOMAIN chunk THEN FieldOf(chunk, k) ELSE chunk[k]

\* The first min(n, Len(a)) elements of a.
FirstOf(a, n) == [i \in 1 .. (IF Len(a) < n THEN Len(a) ELSE n) |-> a[i]]

\* C7: the context is built from exactly the first min(8, n) matches, in the
\* matcher's order: it is the context of those matches alone, and the content
\* of no match at position 9 or later occurs in it.
C7_ContextFromFirstEight ==
  \A r \in ReqIds :
    LET req == Req(r)
    IN (ReachedApi(req) /\ Returned(req.relevantChunks))
         => /\ req.context = ComposeContext(rev, FirstOf(req.relevantChunks.val, 8))
            /\ \A i \in DOMAIN req.relevantChunks.val :
                 i > 8 => ~includes(req.context,
                                    ChunkField(req.relevantChunks.val[i], "content").v)

-----------------------------------------------------------------------------
(* C8 *)

\* A line of a block: the label and the text, or nothing for an empty text.
LineOf(label, x) ==
  IF AbsentToEmpty(x) = EmptyStr THEN <<>> ELSE label \o ToStr(x)

\* The block of a record as C8 states it: the Title line, the Heading line
\* and the content, the parts that are present on a line each.
BlockAsClaimed(chunk) ==
  LET parts == << LineOf(TitlePrefix, ChunkField(chunk, "title")),
                  LineOf(HeadingPrefix, ChunkField(chunk, "heading")),
                  LineOf(<<>>, ChunkField(chunk, "content")) >>
      present == SelectSeq(parts, LAMBDA part : part # <<>>)
  IN [i \in 1 .. (2 * Len(present) - 1) |->
        IF i % 2 = 1 THEN present[(i + 1) \div 2] ELSE <<"\n">>]

\* The blocks with one blank line between two of them, as one string.
RenderingAsClaimed(chunks) ==
  LET blocks == [i \in DOMAIN chunks |-> Concat(BlockAsClaimed(chunks[i]))]
  IN Concat([i \in 1 .. (2 * Len(blocks) - 1) |->
               IF i % 2 = 1 THEN blocks[(i + 1) \div 2] ELSE <<"\n", "\n">>])

\* 'Title: A\nHeading: H1\nhello world'
ExampleRendering ==
  << "T", "i", "t", "l", "e", ":", " ", "A", "\n",
     "H", "e", "a", "d", "i", "n", "g", ":", " ", "H", "1", "\n",
     "h", "e", "l", "l", "o", " ", "w", "o", "r", "l", "d" >>

\* C8: the context of a request with matches is the blocks of its selected
\* records with one blank line between them, a block being the Title line of
\* a non-empty title, the Heading line of a non-empty heading and the content,
\* a line each; the example page with the question 'hello' gives one match
\* and the context 'Title: A\nHeading: H1\nhello world'.
C8_ContextRendering ==
  \A r \in ReqIds :
    LET req == Req(r)
    IN /\ (ReachedApi(req) /\ Returned(req.relevantChunks)
             /\ req.relevantChunks.val # <<>>)
            => req.context = RenderingAsClaimed(FirstOf(req.relevantChunks.val, 8))
       /\ (req.pc # "idle" /\ data = ExampleData /\ req.method = "POST"
             /\ QuestionOf(req.body) = Str(<<"h", "e", "l", "l", "o">>))
            => /\ ReachedApi(req)
               /\ Returned(req.relevantChunks)
               /\ Len(req.relevantChunks.val) = 1
               /\ req.context = ExampleRendering

-----------------------------------------------------------------------------
(* C9 *)

\* The content of the user message of the request's API call.
UserMessage(req) == ApiEvents(req)[1].args.messages[2].content.v

\* The user message that carries the context c for the request.
UserMessageWith(req, c) ==
  ContextPrefix \o c \o QuestionPrefix \o ToStr(req.question) \o UserSuffix(rev)

\* C9: when the question of a request that reaches the API call matches no
\* record, the context the API is given is exactly the sentinel 'No relevant
\* info found.', and no request gives the API an empty context.
C9_NoMatchGivesSentinel ==
  \A r \in ReqIds :
    LET req == Req(r)
    IN ReachedApi(req)
         => /\ UserMessage(req) = UserMessageWith(req, req.context)
            /\ req.context # <<>>
            /\ (Returned(req.relevantChunks) /\ req.relevantChunks.val = <<>>)
                 => req.context = Sentinel

\* A request is at its API call with a question that matched no record.
C9_Witness ==
  \E r \in 1 .. MaxReq :
    /\ reqs[r].pc = "awaiting"
    /\ Returned(reqs[r].relevantChunks)
    /\ reqs[r].relevantChunks.val = <<>>
    /\ UserMessage(reqs[r]) = UserMessageWith(reqs[r], Sentinel)

-----------------------------------------------------------------------------
(* C10 *)

\* The message of what the API call failed with, undefined when it has none.
FailureMessage(err) == IF Nullish(err) THEN Undef ELSE FieldOf(err, "message")

\* C10: a request whose API call failed is answered once, with status 503 in
\* the revision that has a catch around the call and 500 in the others, and
\* with an error payload whose details is the failure's message when it has
\* one; it is not answered 200.
C10_ApiFailureIsReported ==
  (done.pc # "idle" /\ done.settled = "rejected")
    => /\ done.pc = "responded"
       /\ Len(Responses(done)) = 1
       /\ Response(done).status = (IF rev = "part_003" THEN 503 ELSE 500)
       /\ "error" \in DOMAIN Response(done).payload
       /\ ~Nullish(FailureMessage(done.outcome))
            => /\ "details" \in DOMAIN Response(done).payload
               /\ Response(done).payload.details = FailureMessage(done.outcome)

-----------------------------------------------------------------------------
(* C11 *)

\* The response is a full success or a full failure: 200 with an answer and
\* no error, or one of the error statuses with an error and no answer.
SuccessOrFailure(response) ==
  \/ /\ response.status = 200
     /\ "answer" \in DOMAIN response.payload
     /\ "error" \notin DOMAIN response.payload
  \/ /\ response.status \in {400, 405, 500, 503}
     /\ "error" \in DOMAIN response.payload
     /\ "answer" \notin DOMAIN response.payload

\* C11: whatever the method, the body, the data file and the API outcome, a
\* handler that has returned has sent exactly one response, a 200 with an
\* answer or one error status with an error; a handler at its await has sent
\* none; an error thrown by extraction or matching is answered 500, and no
\* error leaves the handler.
C11_ExactlyOneResponse ==
  /\ done.pc # "idle"
       => /\ done.pc = "responded"
          /\ Len(Responses(done)) = 1
          /\ SuccessOrFailure(Response(done))
          /\ (Threw(done.contentRecords) \/ Threw(done.relevantChunks))
               => Response(done).status = 500
  /\ \A r \in 1 .. MaxReq : Responses(reqs[r]) = <<>>

-----------------------------------------------------------------------------
(* C12 *)

\* The text of the first choice's message of a completion, undefined when
\* the completion has no choices, no message or no content.
FirstChoiceText(completion) ==
  LET choices == FieldOf(completion, "choices")
      first == IF choices.t = "array" /\ choices.v # <<>> THEN choices.v[1] ELSE Undef
  IN FieldOf(FieldOf(first, "message"), "content")

\* The fixed fallback answers of the revisions.
Fallbacks == { Text("No response from AI."), Text("No response from AI model.") }

\* C12: a request whose API call succeeded is answered 200 with an answer
\* that is the first choice's message text, trimmed, and the fixed fallback
\* string when the completion has no choices, no message or no content.
C12_AnswerIsTrimmedTextOrFallback ==
  LET text == FirstChoiceText(done.outcome)
  IN (done.pc # "idle" /\ done.settled = "fulfilled" /\ done.outcome.t = "object"
        /\ text.t \in {"undefined", "null", "string"})
       => /\ Responses(done) # <<>>
          /\ Response(done).status = 200
          /\ "answer" \in DOMAIN Response(done).payload
          /\ IF text.t = "string"
             THEN Response(done).payload.answer = Str(Stripped(text.v))
             ELSE Response(done).payload.answer \in Fallbacks

-----------------------------------------------------------------------------
(* C13 *)

\* C13: a request whose method is not POST is answered, whatever its body,
\* with status 405 and an error payload, and the handler runs neither
\* extraction nor matching nor the API call for it.
C13_NonPostIs405 ==
  \A r \in ReqIds :
    LET req == Req(r)
    IN (req.pc # "idle" /\ req.method # "POST")
         => /\ req.pc = "responded"
            /\ Len(Responses(req)) = 1
            /\ Response(req).status = 405
            /\ "error" \in DOMAIN Response(req).payload
            /\ "thrown" \notin DOMAIN req.contentRecords
            /\ "thrown" \notin DOMAIN req.relevantChunks
            /\ ApiEvents(req) = <<>>

\* A GET that carries a proper question has been answered 405.
C13_Witness ==
  /\ done.pc = "responded"
  /\ done.method = "GET"
  /\ HasNonSpace(QuestionOf(done.body))
  /\ Response(done).status = 405

-----------------------------------------------------------------------------
(* C14 *)

\* A console.error call is among the first n events of the request.
LoggedWithin(req, n) == \E j \in 1 .. n : req.events[j].type = "log"

\* C14 as stated: every response with status 400, 405, 500 or 503 comes after
\* a log of the failure.
C14_AsClaimed ==
  \A r \in ReqIds :
    \A i \in DOMAIN Req(r).events :
      LET event == Req(r).events[i]
      IN (event.type = "respond" /\ event.status \in {400, 405, 500, 503})
           => LoggedWithin(Req(r), i - 1)

\* C14, amended: every response with status 500 or 503 comes after a log of
\* the failure; a response with status 400 or 405 is sent without any log.
C14_ServerErrorsAreLoggedFirst ==
  \A r \in ReqIds :
    \A i \in DOMAIN Req(r).events :
      LET event == Req(r).events[i]
      IN event.type = "respond"
           => /\ event.status \in {500, 503} => LoggedWithin(Req(r), i - 1)
              /\ event.status \in {400, 405} => ~LoggedWithin(Req(r), Len(Req(r).events))

\* A failed API call has been answered 500 or 503, after its log.
C14_Witness ==
  /\ done.pc = "responded"
  /\ done.settled = "rejected"
  /\ Response(done).status \in {500, 503}
  /\ LoggedWithin(done, Len(done.events) - 1)

-----------------------------------------------------------------------------
(* C15 *)

\* What the handler does for the request's method and body when it runs
\* alone on the data file, up to its await or its return.
SoloStart(req) ==
  HandlerStart(rev, data, [IdleReq EXCEPT !.pc = "running", !.method = req.method,
                                          !.body = req.body])

\* The request as the handler leaves it when it runs alone and its API call
\* ends as the request's did.
SoloRun(req) ==
  LET waiting == [SoloStart(req) EXCEPT !.settled = req.settled,
                                        !.outcome = req.outcome]
  IN CASE req.settled = "fulfilled" -> HandlerResolved(rev, waiting, req.outcome)
       [] req.settled = "rejected" -> HandlerRejected(rev, waiting, req.outcome)
       [] OTHER -> SoloStart(req)

\* Every request is as its handler leaves it when it runs alone.
EachRequestAsAlone == \A r \in ReqIds : Req(r).pc # "idle" => Req(r) = SoloRun(Req(r))

-----------------------------------------------------------------------------
(* C16 *)

\* No character of s is a letter or a digit.
OnlyPunctuation(s) ==
  \A i \in DOMAIN s :
    LowerChar(s[i]) \notin Range(LowerChars) \cup Range(DigitChars)

\* C16: in the revisions with the prepare matcher the normalized form of a
\* question that passed the validation is not empty, and a validated question
\* without a letter or a digit matches no record and gets the sentinel as its
\* context.
C16_ValidatedQuestionNormalizesNonEmpty ==
  \A r \in ReqIds :
    LET req == Req(r)
    IN (rev \in PrepareRevs /\ req.pc # "idle" /\ ValidRequest(req)
          /\ Returned(req.contentRecords))
         => /\ NormalizedQuestion(rev, req.question) # <<>>
            /\ OnlyPunctuation(req.question.v)
                 => /\ Returned(req.relevantChunks)
                    /\ req.relevantChunks.val = <<>>
                    /\ req.context = Sentinel

-----------------------------------------------------------------------------
(* C17 *)

\* C17: in the revisions with a fallback answer every response with status
\* 200 carries an answer that is a non-empty string: an empty or blank text
\* of the first choice is replaced by the fallback string.
C17_AnswerIsNonEmptyString ==
  \A r \in ReqIds :
    \A i \in DOMAIN Req(r).events :
      LET event == Req(r).events[i]
      IN (rev \in ExtractRevs /\ event.type = "respond" /\ event.status = 200)
           => /\ "answer" \in DOMAIN event.payload
              /\ event.payload.answer.t = "string"
              /\ event.payload.answer.v # <<>>

====
